---- MODULE Spec2Model ----
(***************************************************************************)
(* scripts/gen_dispatch_table.py: the build-time generator of the packet   *)
(* dispatch hash table (linear probing), the C table it emits, and the     *)
(* emitted C lookup function run against that table.                       *)
(***************************************************************************)
EXTENDS Integers, Sequences, FiniteSets, TLC

\* ------------------------------------------------------------------ bounds
\* table sizes 1..MaxCap, enum values 0..MaxKey and type lists of up to
\* MaxEntries names in the generic family of runs
MaxCap == 3
MaxKey == 3
MaxEntries == 3
\* the family of two concurrent calls of compute_hash_table
MaxCap2 == 2
MaxLen2 == 2

\* ------------------------------------------------------- program constants
\* "return -1" of the emitted lookup
NotFound == -1
\* "if (table[slot].key == 0) return -1": the key of a zero-initialised record
EmptyKey == 0
\* "uint8_t handler_idx": the number of values of the emitted field
U8Range == 256

\* ------------------------------------------------------------------ header
\* The enumerators of the header, by value.  Three groups of declared values:
\* the generic ones, multiples of 3 (one home slot in a table of 3) and
\* values that are 1 mod 8 (one home slot in a table of 8).
TypeName(k) == "PACKET_TYPE_" \o ToString(k)
GenericKeys == 0..MaxKey
Mod3Keys == {3, 6, 9, 12}
Mod8Keys == {1, 9, 17}
DeclaredKeys == GenericKeys \cup Mod3Keys \cup Mod8Keys
Header == {[name |-> TypeName(k), value |-> k] : k \in DeclaredKeys}
\* a name the header does not declare
UnknownName == "PACKET_TYPE_UNKNOWN"

\* The text of a declaration NAME = <value text>, : the lines of the value text,
\* each line a sequence of tokens (an integer literal, a symbol, a plus sign).
Lit(n) == [kind |-> "lit", val |-> n, sym |-> ""]
Sym(name) == [kind |-> "sym", val |-> 0, sym |-> name]
Plus == [kind |-> "plus", val |-> 0, sym |-> ""]

\* the declarations whose value is not one literal:
\*   PACKET_TYPE_FOO = PACKET_TYPE_2 + 1,
\*   PACKET_TYPE_ML = 1
\*       + PACKET_TYPE_2,
FooName == "PACKET_TYPE_FOO"
MlName == "PACKET_TYPE_ML"
ExprDecls ==
    {[name |-> FooName, lines |-> <<<<Sym(TypeName(2)), Plus, Lit(1)>>>>],
     [name |-> MlName, lines |-> <<<<Lit(1)>>, <<Plus, Sym(TypeName(2))>>>>]}

\* content = header_path.read_text()
HeaderText ==
    {[name |-> d.name, lines |-> <<<<Lit(d.value)>>>>] : d \in Header} \cup ExprDecls

\* ([^,\n]+) after \s*=\s* : the first line of the value text that is not empty
RECURSIVE ValueStr(_)
ValueStr(lines) ==
    IF lines = <<>> THEN <<>>
    ELSE IF Head(lines) # <<>> THEN Head(lines)
    ELSE ValueStr(Tail(lines))

\* the whole value text, as the C compiler reads it: the line breaks are blanks
RECURSIVE WholeText(_)
WholeText(lines) ==
    IF lines = <<>> THEN <<>> ELSE Head(lines) \o WholeText(Tail(lines))

\* int(value_str) / int(value_str, 16) does not raise ValueError
IntParses(value_str) == Len(value_str) = 1 /\ value_str[1].kind = "lit"
IntOf(value_str) == value_str[1].val

\* parse_enum_values: values[name] = value for every match whose text int() takes
parse_enum_values(content) ==
    LET taken == {d \in content : IntParses(ValueStr(d.lines))}
    IN [n \in {d.name : d \in taken} |->
           IntOf(ValueStr((CHOOSE d \in taken : d.name = n).lines))]

\* line 219: the mapping of the header
enum_values == parse_enum_values(HeaderText)

\* the value the C compiler gives an enumerator named in the emitted table:
\* the sum its whole value text denotes
RECURSIVE CEval(_)
CValue(name) == CEval(WholeText((CHOOSE d \in HeaderText : d.name = name).lines))
CEval(toks) ==
    IF toks = <<>> THEN 0
    ELSE (CASE Head(toks).kind = "lit" -> Head(toks).val
            [] Head(toks).kind = "sym" -> CValue(Head(toks).sym)
            [] OTHER -> 0) + CEval(Tail(toks))

\* ----------------------------------------------------------------- helpers
SeqsUpTo(S, n) == UNION {[1..m -> S] : m \in 1..n}
SeqsFrom0(S, n) == UNION {[1..m -> S] : m \in 0..n}
\* the probe count of the latest entry kept, larger or not
Latest(a, b) == b
Max(a, b) == IF a >= b THEN a ELSE b

\* Python's None in a table slot (a record of the shape of an entry)
None == [name |-> "None", ptype |-> -1, handler_idx |-> -1]
\* no result / no output yet
Nil == <<>>

\* sorted(results, key=lambda x: x[0]): stable insertion by slot
RECURSIVE InsertBySlot(_, _)
InsertBySlot(r, s) ==
    IF s = <<>> THEN <<r>>
    ELSE IF r.slot < Head(s).slot THEN <<r>> \o s
    ELSE <<Head(s)>> \o InsertBySlot(r, Tail(s))

\* the results returned in the order of insertion
InsertionOrder(results) == results

RECURSIVE SortBySlot(_)
SortBySlot(s) ==
    IF s = <<>> THEN <<>>
    ELSE InsertBySlot(s[Len(s)], SortBySlot(SubSeq(s, 1, Len(s) - 1)))

\* ------------------------------------------------------------------- state
VARIABLES
    args,          \* main: the parsed arguments (table_size, types, handlers)
    pc,            \* main: the stage of the run
    entries,       \* main: the resolved (name, packet_type, handler_idx) list
    hash_entries,  \* main: the sorted (slot, name, handler_idx, comment) list
    max_probes,    \* main: the maximum probe count returned by the build
    stdout,        \* the generated source printed to stdout (Nil: nothing)
    stderr,        \* the messages printed to stderr, in order
    exit_code,     \* the exit status (-1 while the run has not exited)
    fr,            \* the frames of the calls of compute_hash_table
    lk,            \* the activation of the emitted dispatch_hash_lookup
    enum_map,      \* main: enum_values, the parsed mapping (Nil before line 219)
    writes,        \* every print of the run, in order: its stream, kind and text
    prev           \* the outcome of the run before this one (Nil: there was none)

vars == <<args, pc, entries, hash_entries, max_probes, stdout, stderr, exit_code, fr, lk,
          enum_map, writes, prev>>
mainVars == <<args, pc, entries, hash_entries, max_probes, stdout, stderr, exit_code,
              enum_map, writes, prev>>

Calls == 1..2

\* ------------------------------------------------------------- the inputs
HandlerName(i) == "handle_" \o ToString(i)
HandlersFor(types) == [i \in 1..Len(types) |-> HandlerName(i - 1)]

\* the naming options: the argparse defaults and a set of other names
DefaultNaming ==
    [prefix |-> "", table_name |-> "g_dispatch_hash", handler_array |-> "g_dispatch_handlers",
     handler_typedef |-> "packet_handler_t", entry_typedef |-> "dispatch_entry_t"]
ClientNaming ==
    [prefix |-> "CLIENT_", table_name |-> "g_client_hash", handler_array |-> "g_client_handlers",
     handler_typedef |-> "client_handler_t", entry_typedef |-> "client_entry_t"]

\* header: "none" (no positional argument), "missing" (no such file), "ok"
MkArgs(size, types) ==
    [table_size |-> size, types |-> types, handlers |-> HandlersFor(types),
     header |-> "ok", list_types |-> FALSE, naming |-> DefaultNaming]
NamesOf(keys) == {TypeName(k) : k \in keys}

GenericArgs == {MkArgs(n, t) : n \in 1..MaxCap, t \in SeqsUpTo(NamesOf(GenericKeys), MaxEntries)}
Mod3Args == {MkArgs(3, t) : t \in SeqsUpTo(NamesOf(Mod3Keys), 4)}
Mod8Args == {MkArgs(8, t) : t \in SeqsUpTo(NamesOf(Mod8Keys), 3)}
UnknownArgs == {MkArgs(2, t) : t \in SeqsUpTo({TypeName(1), UnknownName}, 2)}
\* the names declared with an expression, in tables of 2 and of 4
ExprArgs == {MkArgs(n, t) : n \in {2, 4}, t \in SeqsUpTo({FooName, MlName, TypeName(2)}, 2)}
\* the runs with an input absent or two lists of different lengths, alone or together
ErrArgs ==
    {[MkArgs(1, t) EXCEPT !.handlers = h, !.header = hd, !.list_types = l] :
        t \in {<<>>, <<TypeName(1)>>, <<TypeName(1), UnknownName>>, <<UnknownName, TypeName(1)>>},
        h \in {<<>>, <<HandlerName(0)>>, <<HandlerName(0), HandlerName(1)>>},
        hd \in {"none", "missing", "ok"},
        l \in BOOLEAN}
\* two entries of home slot 0, then two of home slot 1, in a table of 4
ChainArgs == {MkArgs(4, <<TypeName(0), TypeName(12), TypeName(1), TypeName(9)>>)}
\* two names that do not resolve, in either order, for a table of 1
TwoUnknownArgs == {MkArgs(1, <<FooName, UnknownName>>), MkArgs(1, <<UnknownName, FooName>>)}
ArgSets ==
    GenericArgs \cup Mod3Args \cup Mod8Args \cup UnknownArgs \cup ExprArgs \cup ErrArgs
    \cup ChainArgs \cup TwoUnknownArgs

\* the packet types a peer can send to the emitted lookup
LookupTypes == DeclaredKeys \cup {25}

\* --------------------------------------------------- compute_hash_table
IdleFrame ==
    [pc |-> "idle", entries |-> <<>>, table_size |-> 1,
     table |-> <<>>, results |-> <<>>, max_probes |-> 0,
     i |-> 0, cur |-> None, h |-> 0, orig_h |-> 0, probes |-> 0,
     probe_rec |-> <<>>, ret |-> Nil]

CallFrame(f, ents, size) ==
    [f EXCEPT !.pc = "call", !.entries = ents, !.table_size = size,
              !.i = 0, !.cur = None, !.h = 0, !.orig_h = 0, !.probes = 0,
              !.probe_rec = <<>>, !.ret = Nil]

\* the table of the previous call of the frame kept when it has the right size
StaleTable(f) ==
    IF DOMAIN f.table = 0..(f.table_size - 1) /\ f.table_size > 0 /\ f.pc = "call" /\ f.table # <<>>
    THEN f.table
    ELSE [s \in 0..(f.table_size - 1) |-> None]

\* table = [None] * table_size
FreshTable(f) == [s \in 0..(f.table_size - 1) |-> None]

\* lines 74-76
BuildInit(c) ==
    /\ fr[c].pc = "call"
    /\ fr' = [fr EXCEPT ![c].table = FreshTable(fr[c]),
                        ![c].results = <<>>,
                        ![c].max_probes = 0,
                        ![c].pc = "for"]
    /\ UNCHANGED <<mainVars, lk>>

\* the home slot one further than the key's remainder
HomeSlotShifted(ptype, size) == (ptype + 1) % size

\* h = ptype % table_size
HomeSlot(ptype, size) == ptype % size

\* the probe counter carried over from the entry before
ForNextKeepingProbes(c) ==
    /\ fr[c].pc = "for"
    /\ fr[c].i < Len(fr[c].entries)
    /\ LET e == fr[c].entries[fr[c].i + 1]
           h == HomeSlot(e.ptype, fr[c].table_size)
       IN fr' = [fr EXCEPT ![c].i = @ + 1, ![c].cur = e, ![c].h = h,
                           ![c].orig_h = h, ![c].pc = "while"]
    /\ UNCHANGED <<mainVars, lk>>

\* lines 78-81: the next entry of the for loop
ForNext(c) ==
    /\ fr[c].pc = "for"
    /\ fr[c].i < Len(fr[c].entries)
    /\ LET e == fr[c].entries[fr[c].i + 1]
           h == HomeSlot(e.ptype, fr[c].table_size)
       IN fr' = [fr EXCEPT ![c].i = @ + 1, ![c].cur = e, ![c].h = h,
                           ![c].orig_h = h, ![c].probes = 0, ![c].pc = "while"]
    /\ UNCHANGED <<mainVars, lk>>

\* the probing backwards
NextSlotBackward(h, size) == (h + size - 1) % size

\* a probe stride of two slots
NextSlotStride2(h, size) == (h + 2) % size

\* h = (h + 1) % table_size
NextSlot(h, size) == (h + 1) % size

\* the overflow test one probe early
OverflowedEarly(probes, size) == probes >= size - 1

\* no overflow test at all
OverflowedNever(probes, size) == FALSE

\* if probes >= table_size: raise ValueError
Overflowed(probes, size) == probes >= size

\* quadratic probing: the p-th probe reads the slot p * p after the home slot
ProbeQuadratic(c) ==
    /\ fr[c].pc = "while"
    /\ fr[c].table[fr[c].h] # None
    /\ LET p == fr[c].probes + 1
       IN fr' = [fr EXCEPT ![c].h = (fr[c].orig_h + p * p) % fr[c].table_size,
                           ![c].probes = p,
                           ![c].pc = IF Overflowed(p, fr[c].table_size)
                                     THEN "raised" ELSE "while"]
    /\ UNCHANGED <<mainVars, lk>>

\* lines 83-87: the slot is taken, probe the next one
Probe(c) ==
    /\ fr[c].pc = "while"
    /\ fr[c].table[fr[c].h] # None
    /\ LET p == fr[c].probes + 1
       IN fr' = [fr EXCEPT ![c].h = NextSlot(@, fr[c].table_size),
                           ![c].probes = p,
                           ![c].pc = IF Overflowed(p, fr[c].table_size)
                                     THEN "raised" ELSE "while"]
    /\ UNCHANGED <<mainVars, lk>>

\* lines 92-94
Comment(ptype, orig_h, probes, h) ==
    [hash_of |-> ptype, hash |-> orig_h, probed |-> IF probes > 0 THEN <<h>> ELSE <<>>]

\* the entry written over its home slot, whatever the probing found
PlaceOverHome(c) ==
    /\ fr[c].pc = "while"
    /\ fr[c].table[fr[c].h] = None
    /\ LET f == fr[c]
           r == [slot |-> f.orig_h, name |-> f.cur.name, handler_idx |-> f.cur.handler_idx,
                 comment |-> Comment(f.cur.ptype, f.orig_h, f.probes, f.h)]
       IN fr' = [fr EXCEPT ![c].table = [@ EXCEPT ![f.orig_h] = f.cur],
                           ![c].max_probes = Max(@, f.probes),
                           ![c].results = Append(@, r),
                           ![c].probe_rec = Append(@, f.probes),
                           ![c].pc = "for"]
    /\ UNCHANGED <<mainVars, lk>>

\* the table a list of the module, one for all the calls: the entry is put in
\* the slot of every table that has it
PlaceInSharedTable(c) ==
    /\ fr[c].pc = "while"
    /\ fr[c].table[fr[c].h] = None
    /\ LET f == fr[c]
           r == [slot |-> f.h, name |-> f.cur.name, handler_idx |-> f.cur.handler_idx,
                 comment |-> Comment(f.cur.ptype, f.orig_h, f.probes, f.h)]
       IN fr' = [d \in Calls |->
                   IF d = c
                   THEN [f EXCEPT !.table = [@ EXCEPT ![f.h] = f.cur],
                                  !.max_probes = Max(@, f.probes),
                                  !.results = Append(@, r),
                                  !.probe_rec = Append(@, f.probes),
                                  !.pc = "for"]
                   ELSE IF f.h \in DOMAIN fr[d].table
                   THEN [fr[d] EXCEPT !.table = [@ EXCEPT ![f.h] = f.cur]]
                   ELSE fr[d]]
    /\ UNCHANGED <<mainVars, lk>>

\* lines 89-96: the slot is free, the entry takes it
Place(c) ==
    /\ fr[c].pc = "while"
    /\ fr[c].table[fr[c].h] = None
    /\ LET f == fr[c]
           r == [slot |-> f.h, name |-> f.cur.name, handler_idx |-> f.cur.handler_idx,
                 comment |-> Comment(f.cur.ptype, f.orig_h, f.probes, f.h)]
       IN fr' = [fr EXCEPT ![c].table = [@ EXCEPT ![f.h] = f.cur],
                           ![c].max_probes = Max(@, f.probes),
                           ![c].results = Append(@, r),
                           ![c].probe_rec = Append(@, f.probes),
                           ![c].pc = "for"]
    /\ UNCHANGED <<mainVars, lk>>

\* line 98
BuildReturn(c) ==
    /\ fr[c].pc = "for"
    /\ fr[c].i = Len(fr[c].entries)
    /\ fr' = [fr EXCEPT ![c].ret = <<SortBySlot(fr[c].results), fr[c].max_probes>>,
                        ![c].pc = "returned"]
    /\ UNCHANGED <<mainVars, lk>>

BuildStep(c) == BuildInit(c) \/ ForNext(c) \/ Probe(c) \/ Place(c) \/ BuildReturn(c)

\* ------------------------------------------------------------------- main
\* a print: the stream, what is printed and its text
Write(stream, kind, text) == [stream |-> stream, kind |-> kind, text |-> text]

\* parser.error(...): the usage message on stderr, exit status 2
UsageExit == 2
\* sys.exit(1)
ErrorExit == 1

\* lines 211-216: the header argument is given and the file exists
CheckHeader ==
    /\ pc = "start"
    /\ IF args.header = "none"
       THEN /\ stderr' = Append(stderr, [kind |-> "usage_header"])
            /\ writes' = Append(writes, Write("stderr", "error", [kind |-> "usage_header"]))
            /\ exit_code' = UsageExit
            /\ pc' = "exit"
       ELSE IF args.header = "missing"
       THEN /\ stderr' = Append(stderr, [kind |-> "header_not_found"])
            /\ writes' = Append(writes, Write("stderr", "error", [kind |-> "header_not_found"]))
            /\ exit_code' = ErrorExit
            /\ pc' = "exit"
       ELSE /\ pc' = "parse"
            /\ UNCHANGED <<stderr, writes, exit_code>>
    /\ UNCHANGED <<args, entries, hash_entries, max_probes, stdout, fr, lk, enum_map, prev>>

\* line 219
ParseHeader ==
    /\ pc = "parse"
    /\ enum_map' = enum_values
    /\ pc' = "mode"
    /\ UNCHANGED <<args, entries, hash_entries, max_probes, stdout, stderr, exit_code, fr, lk,
                   writes, prev>>

\* the lines of the listing: one name and its value for each item of the mapping
Listing(m) == {<<n, m[n]>> : n \in DOMAIN m}

\* lines 221-225: --list-types prints the mapping to stdout and exits with status 0
ListTypes ==
    /\ pc = "mode"
    /\ args.list_types
    /\ writes' = Append(writes, Write("stdout", "types", Listing(enum_map)))
    /\ exit_code' = 0
    /\ pc' = "exit"
    /\ UNCHANGED <<args, entries, hash_entries, max_probes, stdout, stderr, fr, lk, enum_map, prev>>

\* the lists taken as given, absent or not
CheckRequiredSkipped ==
    /\ pc = "mode"
    /\ ~args.list_types
    /\ pc' = "counts"
    /\ UNCHANGED <<args, entries, hash_entries, max_probes, stdout, stderr, exit_code, fr, lk,
                   enum_map, writes, prev>>

\* lines 227-228: both lists are required
CheckRequired ==
    /\ pc = "mode"
    /\ ~args.list_types
    /\ IF args.types = <<>> \/ args.handlers = <<>>
       THEN /\ stderr' = Append(stderr, [kind |-> "usage_lists"])
            /\ writes' = Append(writes, Write("stderr", "error", [kind |-> "usage_lists"]))
            /\ exit_code' = UsageExit
            /\ pc' = "exit"
       ELSE /\ pc' = "counts"
            /\ UNCHANGED <<stderr, writes, exit_code>>
    /\ UNCHANGED <<args, entries, hash_entries, max_probes, stdout, fr, lk, enum_map, prev>>

\* the lengths never compared
CountsNeverDiffer(types, handlers) == FALSE

\* if len(type_names) != len(handlers)
CountsDiffer(types, handlers) == Len(types) # Len(handlers)

\* lines 230-237: the two lists have one length
CheckCounts ==
    /\ pc = "counts"
    /\ IF CountsDiffer(args.types, args.handlers)
       THEN /\ stderr' = Append(stderr, [kind |-> "count_mismatch",
                                         n_types |-> Len(args.types),
                                         n_handlers |-> Len(args.handlers)])
            /\ writes' = Append(writes, Write("stderr", "error", [kind |-> "count_mismatch"]))
            /\ exit_code' = ErrorExit
            /\ pc' = "exit"
       ELSE /\ pc' = "resolve"
            /\ UNCHANGED <<stderr, writes, exit_code>>
    /\ UNCHANGED <<args, entries, hash_entries, max_probes, stdout, fr, lk, enum_map, prev>>

\* lines 239-246: the first requested name the mapping lacks, if any
UnknownAt(a) == {i \in 1..Len(a.types) : i <= Len(a.handlers) /\ a.types[i] \notin DOMAIN enum_map}
\* the last failing iteration
Greatest(S) == CHOOSE x \in S : \A y \in S : x >= y
Least(S) == CHOOSE x \in S : \A y \in S : x <= y

\* entries.append((type_name, enum_values[type_name], i)), over the mapping m
ResolveKey(m, name) == m[name]
ResolvedWith(a, m) ==
    [i \in 1..(IF Len(a.types) <= Len(a.handlers) THEN Len(a.types) ELSE Len(a.handlers)) |->
        [name |-> a.types[i], ptype |-> ResolveKey(m, a.types[i]), handler_idx |-> i - 1]]
\* the entries of a run on the header
ResolvedEntries(a) == ResolvedWith(a, enum_values)

\* the message without the names
AvailableNone(m) == {}

\* ', '.join(sorted(enum_values.keys()))
Available(m) == DOMAIN m

\* lines 239-246
Resolve ==
    /\ pc = "resolve"
    /\ IF UnknownAt(args) # {}
       THEN /\ stderr' = Append(stderr, [kind |-> "unknown_type",
                                         name |-> args.types[Least(UnknownAt(args))],
                                         available |-> Available(enum_map)])
            /\ writes' = Append(writes, Write("stderr", "error", [kind |-> "unknown_type"]))
            /\ exit_code' = 1
            /\ pc' = "exit"
            /\ UNCHANGED entries
       ELSE /\ entries' = ResolvedWith(args, enum_map)
            /\ pc' = "build"
            /\ UNCHANGED <<stderr, writes, exit_code>>
    /\ UNCHANGED <<args, hash_entries, max_probes, stdout, fr, lk, enum_map, prev>>

\* line 250: the call
CallBuild ==
    /\ pc = "build"
    /\ fr' = [fr EXCEPT ![1] = CallFrame(@, entries, args.table_size)]
    /\ pc' = "in_build"
    /\ UNCHANGED <<args, entries, hash_entries, max_probes, stdout, stderr, exit_code, lk,
                   enum_map, writes, prev>>

\* the emit stage started on the results the build has so far
BuildDoneEarly ==
    /\ pc = "in_build"
    /\ fr[1].pc \in {"for", "returned"}
    /\ hash_entries' = SortBySlot(fr[1].results)
    /\ max_probes' = fr[1].max_probes
    /\ pc' = "emit"
    /\ UNCHANGED <<args, entries, stdout, stderr, exit_code, fr, lk, enum_map, writes, prev>>

\* line 250: the call returned
BuildDone ==
    /\ pc = "in_build"
    /\ fr[1].pc = "returned"
    /\ hash_entries' = fr[1].ret[1]
    /\ max_probes' = fr[1].ret[2]
    /\ pc' = "emit"
    /\ UNCHANGED <<args, entries, stdout, stderr, exit_code, fr, lk, enum_map, writes, prev>>

\* the overflow reported, the exit status left at 0
BuildErrorStatusZero ==
    /\ pc = "in_build"
    /\ fr[1].pc = "raised"
    /\ stderr' = Append(stderr, [kind |-> "overflow", table_size |-> fr[1].table_size])
    /\ writes' = Append(writes, Write("stderr", "error", [kind |-> "overflow"]))
    /\ exit_code' = 0
    /\ pc' = "exit"
    /\ UNCHANGED <<args, entries, hash_entries, max_probes, stdout, fr, lk, enum_map, prev>>

\* lines 251-253: the call raised ValueError
BuildError ==
    /\ pc = "in_build"
    /\ fr[1].pc = "raised"
    /\ stderr' = Append(stderr, [kind |-> "overflow", table_size |-> fr[1].table_size])
    /\ writes' = Append(writes, Write("stderr", "error", [kind |-> "overflow"]))
    /\ exit_code' = 1
    /\ pc' = "exit"
    /\ UNCHANGED <<args, entries, hash_entries, max_probes, stdout, fr, lk, enum_map, prev>>

\* the capacity macro of a prefixed table left to another table's macro
generate_c_code_foreign_size(ents, table_size, handler_count, handlers, naming) ==
    [hash_size |-> IF naming.prefix = "" THEN table_size ELSE table_size + 1,
     handler_count |-> handler_count,
     handlers |-> handlers,
     table_init |-> ents,
     size_macro |-> "DISPATCH_HASH_SIZE",
     count_macro |-> naming.prefix \o "DISPATCH_HANDLER_COUNT",
     hash_macro |-> naming.prefix \o "DISPATCH_HASH",
     lookup_fn |-> naming.prefix \o "dispatch_hash_lookup",
     entry_typedef |-> naming.entry_typedef,
     handler_typedef |-> naming.handler_typedef,
     handler_array |-> naming.handler_array,
     table_name |-> naming.table_name]

\* prefix.lower(), on the prefixes of the naming options
Lower(prefix) == IF prefix = "CLIENT_" THEN "client_" ELSE prefix

\* generate_c_code: the constants, the lookup function, the handler array and the
\* table initialisers, each under the name the naming options give it
generate_c_code(ents, table_size, handler_count, handlers, naming) ==
    [hash_size |-> table_size,
     handler_count |-> handler_count,
     handlers |-> handlers,
     table_init |-> ents,
     size_macro |-> naming.prefix \o "DISPATCH_HASH_SIZE",
     count_macro |-> naming.prefix \o "DISPATCH_HANDLER_COUNT",
     hash_macro |-> naming.prefix \o "DISPATCH_HASH",
     lookup_fn |-> Lower(naming.prefix) \o "dispatch_hash_lookup",
     entry_typedef |-> naming.entry_typedef,
     handler_typedef |-> naming.handler_typedef,
     handler_array |-> naming.handler_array,
     table_name |-> naming.table_name]

\* lines 256-268
Emit ==
    /\ pc = "emit"
    /\ stdout' = generate_c_code(hash_entries, args.table_size, Len(args.handlers), args.handlers,
                                 args.naming)
    /\ writes' = Append(writes, Write("stdout", "source", stdout'))
    /\ pc' = "stats"
    /\ UNCHANGED <<args, entries, hash_entries, max_probes, stderr, exit_code, fr, lk,
                   enum_map, prev>>

\* the statistics printed without file=sys.stderr
StatsOnStdout ==
    /\ pc = "stats"
    /\ writes' = Append(writes, Write("stdout", "stats",
                                      [kind |-> "stats", n_entries |-> Len(entries),
                                       table_size |-> args.table_size,
                                       load_factor |-> <<Len(entries) * 100, args.table_size>>,
                                       max_probes |-> max_probes]))
    /\ exit_code' = 0
    /\ pc' = "exit"
    /\ UNCHANGED <<args, entries, hash_entries, max_probes, stdout, stderr, fr, lk, enum_map, prev>>

\* lines 271-273, then main returns
Stats ==
    /\ pc = "stats"
    /\ stderr' = Append(stderr, [kind |-> "stats", n_entries |-> Len(entries),
                                 table_size |-> args.table_size,
                                 load_factor |-> <<Len(entries) * 100, args.table_size>>,
                                 max_probes |-> max_probes])
    /\ writes' = Append(writes, Write("stderr", "stats", stderr'[Len(stderr')]))
    /\ exit_code' = 0
    /\ pc' = "exit"
    /\ UNCHANGED <<args, entries, hash_entries, max_probes, stdout, fr, lk, enum_map, prev>>

\* ------------------------------------------- the emitted table and lookup
\* uint8_t handler_idx
U8(x) == x % U8Range

\* static const dispatch_entry_t g_dispatch_hash[SIZE] = { [slot] = {NAME, idx}, ... }:
\* the slots without an initialiser are zero
CTable(code) ==
    [s \in 0..(code.hash_size - 1) |->
        IF \E j \in DOMAIN code.table_init : code.table_init[j].slot = s
        THEN LET e == code.table_init[CHOOSE j \in DOMAIN code.table_init :
                                          code.table_init[j].slot = s]
             IN [key |-> CValue(e.name), handler_idx |-> U8(e.handler_idx)]
        ELSE [key |-> 0, handler_idx |-> 0]]

\* #define DISPATCH_HASH(type) ((type) % DISPATCH_HASH_SIZE)
DISPATCH_HASH(type, code) == type % code.hash_size

IdleLookup == [pc |-> "idle", type |-> 0, h |-> 0, i |-> 0, ret |-> NotFound, visited |-> <<>>]

\* lines 133-134: a call of dispatch_hash_lookup(g_dispatch_hash, type) in the
\* program compiled from the generated source, once the generator has exited
LookupCall(type) ==
    /\ pc = "exit"
    /\ stdout # Nil
    /\ lk.pc \in {"idle", "done"}
    /\ lk' = [pc |-> "loop", type |-> type, h |-> DISPATCH_HASH(type, stdout), i |-> 0,
              ret |-> NotFound, visited |-> <<>>]
    /\ UNCHANGED <<mainVars, fr>>

\* the loop bound off by one
LoopCondInclusive(i, size) == i <= size

\* for (int i = 0; i < DISPATCH_HASH_SIZE; i++)
LoopCond(i, size) == i < size

\* if (table[slot].key == 0)
IsEmpty(rec) == rec.key = EmptyKey

\* lines 135-138: one iteration of the loop
LookupIter ==
    /\ lk.pc = "loop"
    /\ LoopCond(lk.i, stdout.hash_size)
    /\ LET slot == (lk.h + lk.i) % stdout.hash_size
           rec == CTable(stdout)[slot]
           seen == Append(lk.visited, slot)
       IN lk' = IF IsEmpty(rec)
                THEN [lk EXCEPT !.pc = "done", !.ret = NotFound, !.visited = seen]
                ELSE IF rec.key = lk.type
                THEN [lk EXCEPT !.pc = "done", !.ret = rec.handler_idx, !.visited = seen]
                ELSE [lk EXCEPT !.i = @ + 1, !.visited = seen]
    /\ UNCHANGED <<mainVars, fr>>

\* line 140: the loop ran out
LookupExhaust ==
    /\ lk.pc = "loop"
    /\ ~LoopCond(lk.i, stdout.hash_size)
    /\ lk' = [lk EXCEPT !.pc = "done", !.ret = NotFound]
    /\ UNCHANGED <<mainVars, fr>>

\* ------------------------------------------------------ the specification
\* the process starts: nothing is parsed, nothing is printed
Start(a) ==
    /\ args = a
    /\ pc = "start"
    /\ entries = <<>>
    /\ hash_entries = <<>>
    /\ max_probes = 0
    /\ stdout = Nil
    /\ stderr = <<>>
    /\ exit_code = -1
    /\ fr = [c \in Calls |-> IdleFrame]
    /\ lk = IdleLookup
    /\ enum_map = Nil
    /\ writes = <<>>

Init ==
    /\ \E a \in ArgSets : Start(a)
    /\ prev = Nil

Next ==
    \/ CheckHeader
    \/ ParseHeader
    \/ ListTypes
    \/ CheckRequired
    \/ CheckCounts
    \/ Resolve
    \/ CallBuild
    \/ \E c \in Calls : BuildStep(c)
    \/ BuildDone
    \/ BuildError
    \/ Emit
    \/ Stats
    \/ \E t \in LookupTypes : LookupCall(t)
    \/ LookupIter
    \/ LookupExhaust

Spec == Init /\ [][Next]_vars

\* ------------------- two calls of compute_hash_table, interleaved step by step
Call2Keys == {1, 3}
Call2Entries == {[i \in 1..Len(ks) |-> [name |-> TypeName(ks[i]), ptype |-> ks[i], handler_idx |-> i - 1]] :
                    ks \in SeqsFrom0(Call2Keys, MaxLen2)}

\* a later call in the same interpreter, with the arguments of the other call:
\* its locals are whatever lines 74-81 make them
Recall(c) ==
    /\ pc = "lib"
    /\ fr[c].pc \in {"returned", "raised"}
    /\ \E d \in Calls \ {c} :
          fr' = [fr EXCEPT ![c] = CallFrame(@, fr[d].entries, fr[d].table_size)]
    /\ UNCHANGED <<mainVars, lk>>

InitCalls ==
    /\ args = MkArgs(1, <<>>)
    /\ pc = "lib"
    /\ entries = <<>>
    /\ hash_entries = <<>>
    /\ max_probes = 0
    /\ stdout = Nil
    /\ stderr = <<>>
    /\ exit_code = -1
    /\ fr \in [Calls -> {CallFrame(IdleFrame, ents, size) :
                            ents \in Call2Entries, size \in 1..MaxCap2}]
    /\ lk = IdleLookup
    /\ enum_map = Nil
    /\ writes = <<>>
    /\ prev = Nil

NextCalls == \E c \in Calls : BuildStep(c) \/ Recall(c)

SpecCalls == InitCalls /\ [][NextCalls]_vars

\* ------------------------- two runs that differ in the naming options only
NamingKeys == {0, 1, 3}
NamingArgs ==
    {[a EXCEPT !.naming = n] :
        a \in {MkArgs(size, t) : size \in 1..MaxCap2,
                                  t \in SeqsUpTo({TypeName(k) : k \in NamingKeys}, MaxLen2)}
               \cup {[MkArgs(1, <<TypeName(1)>>) EXCEPT !.list_types = TRUE]},
        n \in {DefaultNaming, ClientNaming}}

\* the generator is run again on the same inputs with the other naming options;
\* the outcome of the first run and a lookup in its output are kept in prev
Rerun ==
    /\ pc = "exit"
    /\ prev = Nil
    /\ lk.pc \in {"idle", "done"}
    /\ prev' = [args |-> args, stdout |-> stdout, stderr |-> stderr,
                exit_code |-> exit_code, writes |-> writes, lk |-> lk]
    /\ \E n \in {DefaultNaming, ClientNaming} \ {args.naming} :
          args' = [args EXCEPT !.naming = n]
    /\ pc' = "start"
    /\ entries' = <<>>
    /\ hash_entries' = <<>>
    /\ max_probes' = 0
    /\ stdout' = Nil
    /\ stderr' = <<>>
    /\ exit_code' = -1
    /\ fr' = [c \in Calls |-> IdleFrame]
    /\ lk' = IdleLookup
    /\ enum_map' = Nil
    /\ writes' = <<>>

InitNaming ==
    /\ \E a \in NamingArgs : Start(a)
    /\ prev = Nil

NextNaming == Next \/ Rerun

SpecNaming == InitNaming /\ [][NextNaming]_vars

\* ------------- generate_c_code called on its own, with handler indexes of a
\* list of more than 256 types
WideKeys == {1, 2, 3}
WideIdx == {0, 255, 256, 257}
WideHandlers == [i \in 1..258 |-> HandlerName(i - 1)]
\* the records of some of the entries of such a list, in a table of 3, each in
\* its home slot, in the order of the slots
WideRecord(k, idx) ==
    [slot |-> HomeSlot(k, 3), name |-> TypeName(k), handler_idx |-> idx,
     comment |-> Comment(k, HomeSlot(k, 3), 0, HomeSlot(k, 3))]
WideEntries ==
    {SortBySlot([j \in 1..Len(ks) |-> WideRecord(ks[j], f[ks[j]])]) :
        ks \in {<<1>>, <<2>>, <<3>>, <<1, 2>>, <<1, 3>>, <<2, 3>>, <<1, 2, 3>>},
        f \in [WideKeys -> WideIdx]}

InitEmit ==
    /\ args = [MkArgs(3, <<>>) EXCEPT !.handlers = WideHandlers]
    /\ pc = "lib_emit"
    /\ entries = <<>>
    /\ hash_entries \in WideEntries
    /\ max_probes = 0
    /\ stdout = Nil
    /\ stderr = <<>>
    /\ exit_code = -1
    /\ fr = [c \in Calls |-> IdleFrame]
    /\ lk = IdleLookup
    /\ enum_map = Nil
    /\ writes = <<>>
    /\ prev = Nil

\* lines 256-268, for a caller that is not main
EmitCall ==
    /\ pc = "lib_emit"
    /\ stdout' = generate_c_code(hash_entries, args.table_size, Len(args.handlers), args.handlers,
                                 args.naming)
    /\ writes' = Append(writes, Write("stdout", "source", stdout'))
    /\ exit_code' = 0
    /\ pc' = "exit"
    /\ UNCHANGED <<args, entries, hash_entries, max_probes, stderr, fr, lk, enum_map, prev>>

NextEmit ==
    \/ EmitCall
    \/ \E t \in LookupTypes : LookupCall(t)
    \/ LookupIter
    \/ LookupExhaust

SpecEmit == InitEmit /\ [][NextEmit]_vars

\* fairness: the interpreter keeps executing a call of compute_hash_table
SpecFair == Init /\ [][Next]_vars /\ WF_vars(\E c \in Calls : BuildStep(c))

\* ================================================================ claims
KeysOf(ents) == {ents[i].ptype : i \in DOMAIN ents}
UniqueKeys(ents) == \A i, j \in DOMAIN ents : i # j => ents[i].ptype # ents[j].ptype
KeySeq(ents) == [i \in DOMAIN ents |-> ents[i].ptype]
Finished(c) == fr[c].pc \in {"returned", "raised"}
\* the slot the build gave the entry of that name
SlotOf(name) == (CHOOSE j \in DOMAIN hash_entries : hash_entries[j].name = name)
AssignedSlot(name) == hash_entries[SlotOf(name)].slot

\* C1: round trip. For every list of entries with distinct keys that fits the
\* table the build succeeds, and the emitted lookup of every entry's key
\* returns that entry's handler_idx.
C1_RoundTrip ==
    /\ (Finished(1) /\ Len(fr[1].entries) <= fr[1].table_size) => fr[1].pc = "returned"
    /\ (lk.pc = "done" /\ UniqueKeys(entries)) =>
          \A i \in DOMAIN entries :
             entries[i].ptype = lk.type => lk.ret = entries[i].handler_idx

\* C2: the lookup of an entry's key ends at the slot the build assigned to the
\* entry, after exactly the entry's probe_count displacements.
C2_LookupMirrorsBuild ==
    (lk.pc = "done" /\ UniqueKeys(entries)) =>
       \A i \in DOMAIN entries :
          entries[i].ptype = lk.type =>
             /\ lk.visited # <<>>
             /\ lk.visited[Len(lk.visited)] = AssignedSlot(entries[i].name)
             /\ lk.i = fr[1].probe_rec[i]
             /\ Len(lk.visited) = fr[1].probe_rec[i] + 1

\* the keys of the entries of the emitted table, as the compiled program has them
EmittedKeys == {CValue(stdout.table_init[j].name) : j \in DOMAIN stdout.table_init}

C4_DuplicateSurfaced ==
    stdout # Nil =>
       \A j, k \in DOMAIN stdout.table_init :
          j # k => CValue(stdout.table_init[j].name) # CValue(stdout.table_init[k].name)

\* C5: no record of the emitted table has the key the lookup takes for Empty.
C5_SentinelDistinct ==
    stdout # Nil =>
       \A j \in DOMAIN stdout.table_init : CValue(stdout.table_init[j].name) # EmptyKey

\* C6 as stated: the build of keys 3, 6, 9 in a table of 3 ends in the overflow
\* error, at the third insertion.
C6_OverflowAtThird ==
    (Finished(1) /\ fr[1].table_size = 3 /\ KeySeq(fr[1].entries) = <<3, 6, 9>>) =>
        fr[1].pc = "raised" /\ fr[1].i = 3

\* C6 amended: keys 3, 6, 9 in a table of 3 are placed in slots 0, 1, 2 after
\* 0, 1, 2 probes; it is the fourth insertion (keys 3, 6, 9, 12) that finds all
\* 3 slots taken and raises the overflow error.
C6_OverflowAtFourth ==
    /\ (Finished(1) /\ fr[1].table_size = 3 /\ KeySeq(fr[1].entries) = <<3, 6, 9>>) =>
          /\ fr[1].pc = "returned"
          /\ fr[1].probe_rec = <<0, 1, 2>>
          /\ [j \in 1..3 |-> fr[1].ret[1][j].slot] = <<0, 1, 2>>
          /\ [j \in 1..3 |-> fr[1].ret[1][j].handler_idx] = <<0, 1, 2>>
    /\ (Finished(1) /\ fr[1].table_size = 3 /\ KeySeq(fr[1].entries) = <<3, 6, 9, 12>>) =>
          /\ fr[1].pc = "raised"
          /\ fr[1].i = 4
          /\ fr[1].probes = 3
          /\ pc = "exit" => (exit_code = 1 /\ stdout = Nil)

C6_Witness ==
    /\ fr[1].table_size = 3
    /\ KeySeq(fr[1].entries) = <<3, 6, 9, 12>>
    /\ fr[1].pc = "raised"
    /\ pc = "exit"

\* C7: a build ends with a table or with the overflow error, and with the error
\* exactly when there are more entries than slots; the error is raised when the
\* probe count reaches table_size, which no placed entry's does; every call ends.
C7_Outcome ==
    \A c \in Calls :
       /\ fr[c].pc = "returned" =>
             /\ Len(fr[c].entries) <= fr[c].table_size
             /\ fr[c].ret # Nil
             /\ Len(fr[c].ret[1]) = Len(fr[c].entries)
       /\ fr[c].pc = "raised" =>
             /\ Len(fr[c].entries) > fr[c].table_size
             /\ fr[c].ret = Nil
             /\ fr[c].probes = fr[c].table_size
             /\ \A s \in DOMAIN fr[c].table : fr[c].table[s] # None
       /\ fr[c].pc = "while" => fr[c].probes < fr[c].table_size

C7_BuildOutcome ==
    /\ []C7_Outcome
    /\ \A c \in Calls : (fr[c].pc = "call") ~> Finished(c)

C7_Witness ==
    /\ fr[1].pc = "raised"
    /\ Len(fr[1].entries) = fr[1].table_size + 1
    /\ fr[1].table_size >= 2
    /\ pc = "exit"
    /\ exit_code = 1

\* C8: two calls with the same entries in the same order and the same
\* table_size end the same way with the same table, whatever either frame
\* built before.
C8_Determinism ==
    (Finished(1) /\ Finished(2)
       /\ fr[1].entries = fr[2].entries /\ fr[1].table_size = fr[2].table_size) =>
        /\ fr[1].pc = fr[2].pc
        /\ fr[1].ret = fr[2].ret
        /\ fr[1].table = fr[2].table
        /\ fr[1].max_probes = fr[2].max_probes

C8_Witness ==
    /\ fr[1].pc = "returned"
    /\ fr[2].pc = "returned"
    /\ fr[1].entries = fr[2].entries
    /\ fr[1].table_size = fr[2].table_size
    /\ Len(fr[1].entries) = 2
    /\ fr[1].max_probes > 0

\* C9: of two entries with distinct keys and one home slot the first of the
\* input order takes the home slot, and the lookup of either key returns that
\* entry's handler_idx.
C9_OrderSensitivity ==
    (Len(entries) = 2 /\ entries[1].ptype # entries[2].ptype
       /\ HomeSlot(entries[1].ptype, args.table_size) = HomeSlot(entries[2].ptype, args.table_size)) =>
        /\ stdout # Nil =>
              /\ AssignedSlot(entries[1].name) = HomeSlot(entries[1].ptype, args.table_size)
              /\ AssignedSlot(entries[2].name) # HomeSlot(entries[2].ptype, args.table_size)
        /\ lk.pc = "done" =>
              \A i \in 1..2 : entries[i].ptype = lk.type => lk.ret = entries[i].handler_idx

\* C10: table_size 8 and the keys 1, 9, 17 in that order: slots 1, 2, 3 after
\* 0, 1, 2 probes; the lookups of 1, 9, 17 return 0, 1, 2; the lookup of 25
\* reads slots 1, 2, 3, 4 and returns NotFound.
C10_InScenario == args.table_size = 8 /\ KeySeq(ResolvedEntries(args)) = <<1, 9, 17>>

C10_Scenario ==
    C10_InScenario =>
        /\ Finished(1) =>
              /\ fr[1].pc = "returned"
              /\ fr[1].probe_rec = <<0, 1, 2>>
              /\ [j \in 1..3 |-> fr[1].results[j].slot] = <<1, 2, 3>>
              /\ [j \in 1..3 |-> fr[1].ret[1][j].name] = <<TypeName(1), TypeName(9), TypeName(17)>>
              /\ [j \in 1..3 |-> fr[1].ret[1][j].handler_idx] = <<0, 1, 2>>
        /\ lk.pc = "done" =>
              /\ lk.type = 1 => lk.ret = 0
              /\ lk.type = 9 => lk.ret = 1
              /\ lk.type = 17 => lk.ret = 2
              /\ lk.type = 25 => (lk.ret = NotFound /\ lk.visited = <<1, 2, 3, 4>>)

C10_Witness ==
    /\ C10_InScenario
    /\ lk.pc = "done"
    /\ lk.type = 25
    /\ Len(lk.visited) = 4


\* the lookup procedure over the table the build filled: a slot is Empty (None)
\* or holds an entry with its key and handler_idx; i is the probe reached
RECURSIVE ProbeFrom(_, _, _, _)
ProbeFrom(table, capacity, key, i) ==
    IF i >= capacity THEN NotFound
    ELSE LET slot == ((key % capacity) + i) % capacity
         IN IF table[slot] = None THEN NotFound
            ELSE IF table[slot].ptype = key THEN table[slot].handler_idx
            ELSE ProbeFrom(table, capacity, key, i + 1)

\* C11: the emitted lookup agrees with the build. The emitted capacity is the
\* table_size given to the build, the lookup starts at key mod capacity and
\* visits (home + i) mod capacity for i = 0, 1, ..., and its result is the
\* result of the lookup procedure on the table the build filled.
C11_EmittedAgrees ==
    (pc = "exit" /\ stdout # Nil) =>
        /\ stdout.hash_size = fr[1].table_size
        /\ lk.pc # "idle" =>
              /\ lk.h = lk.type % fr[1].table_size
              /\ \A k \in DOMAIN lk.visited :
                     lk.visited[k] = (lk.h + (k - 1)) % fr[1].table_size
        /\ lk.pc = "done" =>
              lk.ret = ProbeFrom(fr[1].table, fr[1].table_size, lk.type, 0)


\* C12: the handler array. The emitted array has one element per requested
\* type, element i being the handler given with the i-th type; the table record
\* of the i-th entry carries handler_idx = i; and the array indexed with the
\* result of the lookup of an entry's key gives the handler paired with it.
C12_HandlerOfEntry ==
    (pc = "exit" /\ stdout # Nil) =>
        /\ Len(stdout.handlers) = Len(args.types)
        /\ stdout.handler_count = Len(args.types)
        /\ \A i \in DOMAIN args.types : stdout.handlers[i] = args.handlers[i]
        /\ \A i \in DOMAIN entries :
              \E j \in DOMAIN stdout.table_init :
                 /\ stdout.table_init[j].name = entries[i].name
                 /\ stdout.table_init[j].handler_idx = i - 1
        /\ lk.pc = "done" =>
              \A i \in DOMAIN entries :
                 entries[i].ptype = lk.type =>
                    /\ lk.ret \in 0..(Len(stdout.handlers) - 1)
                    /\ stdout.handlers[lk.ret + 1] = args.handlers[i]


\* the error classes, as conditions on the inputs of the run
ConfigErr == args.header # "ok" \/ args.types = <<>> \/ args.handlers = <<>>
CountErr == Len(args.types) # Len(args.handlers)
UnresolvedErr == \E i \in DOMAIN args.types : args.types[i] \notin DOMAIN enum_values
OverflowErr == Len(args.types) > args.table_size
AnyErr == ConfigErr \/ CountErr \/ UnresolvedErr \/ OverflowErr
\* extract, resolve, build and emit have all completed
AllStagesDone ==
    /\ enum_map # Nil
    /\ entries = ResolvedWith(args, enum_map)
    /\ fr[1].pc = "returned"
    /\ stdout # Nil
\* the output stream of the run holds nothing / no generated source
NoOutput == stdout = Nil /\ \A k \in DOMAIN writes : writes[k].stream # "stdout"
NoSource == stdout = Nil /\ \A k \in DOMAIN writes : writes[k].kind # "source"

\* C13 as stated: a run exits with status 0 only when all stages succeeded, and
\* with a nonzero status in every error class; a failing run writes no source.
C13_ZeroOnlyAfterAllStages ==
    pc = "exit" =>
        /\ exit_code = 0 => AllStagesDone
        /\ AnyErr => exit_code # 0
        /\ exit_code # 0 => NoSource

\* C13: exit status and output on failure. A run that does not ask for the
\* listing exits with status 0 only when all stages succeeded and with a
\* nonzero status in every error class; a listing run exits with status 0 once
\* the symbols are extracted, whatever its type and handler lists are, and
\* writes the listing only; a failing run writes nothing to the output.
C13_ExitStatus ==
    pc = "exit" =>
        /\ ~args.list_types =>
              /\ exit_code = 0 => AllStagesDone
              /\ AnyErr => exit_code # 0
        /\ args.list_types =>
              /\ exit_code = 0 <=> args.header = "ok"
              /\ exit_code = 0 =>
                    /\ enum_map # Nil
                    /\ writes = <<Write("stdout", "types", Listing(enum_map))>>
              /\ NoSource
        /\ exit_code # 0 => NoOutput

\* a run that failed in the last stage that can fail: the build overflowed
C13_Witness ==
    /\ pc = "exit"
    /\ OverflowErr
    /\ fr[1].pc = "raised"
    /\ exit_code # 0
    /\ NoOutput


\* the steps of main in their order; every step may also end the run
StageOrder ==
    {<<"start", "parse">>, <<"parse", "mode">>, <<"mode", "counts">>, <<"counts", "resolve">>,
     <<"resolve", "build">>, <<"build", "in_build">>, <<"in_build", "emit">>,
     <<"emit", "stats">>, <<"stats", "exit">>}
     \cup {<<p, "exit">> : p \in {"start", "mode", "counts", "resolve", "in_build"}}
Extracted == enum_map # Nil
Resolved == entries = ResolvedWith(args, enum_map) /\ entries # <<>>
Built == fr[1].pc = "returned" /\ fr[1].entries = entries /\ hash_entries = fr[1].ret[1]
NoError == exit_code = -1 /\ stderr = <<>>

\* a stage has started only if the stage before it completed without error
C14_StageInv ==
    /\ pc \in {"mode", "counts", "resolve"} => Extracted /\ NoError
    /\ pc \in {"build", "in_build"} => Extracted /\ Resolved /\ exit_code = -1
    /\ fr[1].pc # "idle" => Extracted /\ Resolved
    /\ pc \in {"emit", "stats"} => Extracted /\ Resolved /\ Built /\ NoError
    /\ stdout # Nil =>
          /\ Extracted /\ Resolved /\ Built
          /\ Len(stdout.table_init) = Len(args.types)
          /\ stdout.hash_size = args.table_size
          /\ \A i \in DOMAIN args.types :
                \E j \in DOMAIN stdout.table_init :
                   /\ stdout.table_init[j].name = args.types[i]
                   /\ stdout.table_init[j].comment.hash_of = enum_map[args.types[i]]
                   /\ stdout.table_init[j].handler_idx = i - 1
                   /\ stdout.table_init[j].slot \in 0..(args.table_size - 1)
          /\ \A j, k \in DOMAIN stdout.table_init :
                j # k => stdout.table_init[j].slot # stdout.table_init[k].slot

\* the stages follow one another in order, and nothing of the run changes once
\* it has exited
C14_StageStep ==
    /\ pc' # pc => <<pc, pc'>> \in StageOrder
    /\ pc = "exit" => UNCHANGED mainVars /\ UNCHANGED fr

\* C14: staged processing. In every run the stages happen in the order
\* extract, resolve, build, emit, a stage starting only if the one before it
\* completed without error; an emitted table holds exactly one record for each
\* requested (type, handler) pair, with the type's resolved key and the pair's
\* input position as handler_idx, each in a slot of its own, and nothing else.
C14_Staged == []C14_StageInv /\ [][C14_StageStep]_vars

\* a table of three entries, two of them displaced by a collision, was emitted
C14_Witness ==
    /\ pc = "exit"
    /\ exit_code = 0
    /\ stdout # Nil
    /\ Len(stdout.table_init) = 3
    /\ max_probes = 2


HeaderAbsent == args.header # "ok"
ListsAbsent == args.types = <<>> \/ args.handlers = <<>>
\* the run ended on one error message, of one of the kinds given, and a nonzero status
Reported(kinds) ==
    /\ Len(stderr) = 1
    /\ stderr[1].kind \in kinds
    /\ exit_code # 0
NothingProcessed == enum_map = Nil /\ entries = <<>> /\ fr[1].pc = "idle"

\* C15 as stated: when a required input is absent the error is detected before
\* symbol extraction, resolution or build has run, and no output is written.
C15_BeforeAnyStage ==
    (HeaderAbsent \/ ListsAbsent) =>
        /\ NothingProcessed
        /\ NoOutput
        /\ pc = "exit" => Reported({"usage_header", "header_not_found", "usage_lists"})

\* C15: ConfigError. An absent declaration source is detected before any
\* processing stage has run. An absent type or handler list is detected, in a
\* run that does not ask for the listing, after the symbols have been extracted
\* and before resolution and build. In both cases no output is written.
C15_ConfigError ==
    /\ HeaderAbsent =>
          /\ NothingProcessed
          /\ NoOutput
          /\ pc = "exit" => Reported({"usage_header", "header_not_found"})
    /\ (~HeaderAbsent /\ ListsAbsent /\ ~args.list_types) =>
          /\ entries = <<>> /\ fr[1].pc = "idle"
          /\ NoOutput
          /\ pc = "exit" => Reported({"usage_lists"}) /\ enum_map = enum_values

\* a run without a type list, ended by the error after the header was parsed
C15_Witness ==
    /\ pc = "exit"
    /\ ~HeaderAbsent /\ args.types = <<>> /\ ~args.list_types
    /\ exit_code = UsageExit
    /\ enum_map # Nil


NotBuilt == entries = <<>> /\ fr[1].pc = "idle" /\ hash_entries = <<>>

\* the comparison of the two lists, when they differ, ends the run at once
C16_AbortStep ==
    (pc = "counts" /\ CountErr) =>
        /\ pc' = "exit"
        /\ exit_code' # 0
        /\ stderr' = <<[kind |-> "count_mismatch", n_types |-> Len(args.types),
                        n_handlers |-> Len(args.handlers)]>>
        /\ UNCHANGED <<entries, hash_entries, stdout, fr>>

\* with lists of different lengths nothing is resolved, hashed or emitted, and
\* the run that compared them exits with a nonzero status
C16_NeverBuilt ==
    CountErr =>
        /\ pc \in {"start", "parse", "mode", "counts", "exit"}
        /\ NotBuilt
        /\ NoSource
        /\ (pc = "exit" /\ stderr # <<>>) => exit_code # 0

Unresolved(m) == {i \in DOMAIN args.types : args.types[i] \notin DOMAIN m}

\* the resolution, when a requested name is not in the mapping, ends the run at
\* once with a message that names it and lists every name of the mapping
C17_AbortStep ==
    (pc = "resolve" /\ Unresolved(enum_map) # {}) =>
        /\ pc' = "exit"
        /\ exit_code' # 0
        /\ Len(stderr') = 1
        /\ stderr'[1].kind = "unknown_type"
        /\ stderr'[1].name \in {args.types[i] : i \in Unresolved(enum_map)}
        /\ \A i \in Unresolved(enum_map) :
              stderr'[1].name # args.types[i] => \E j \in Unresolved(enum_map) : j < i
        /\ stderr'[1].available = DOMAIN enum_values
        /\ UNCHANGED <<hash_entries, stdout, fr>>

\* with a requested name the mapping lacks nothing is hashed or emitted
C17_NeverBuilt ==
    Unresolved(enum_values) # {} =>
        /\ fr[1].pc = "idle" /\ hash_entries = <<>>
        /\ NoSource
        /\ (pc = "exit" /\ stderr # <<>>) => exit_code # 0

NonLiteral(d) == ~(Len(WholeText(d.lines)) = 1 /\ WholeText(d.lines)[1].kind = "lit")
Requested(name) == \E i \in DOMAIN args.types : args.types[i] = name

\* C18: unsupported-symbol exclusion. A symbol whose declared value is an
\* expression and not a literal has no value in the resolved mapping, and a
\* run whose type list names it hashes no entry for it and emits no table: if
\* it resolves the list it ends with the unknown-type error.
C18_ExprExcluded ==
    \A d \in HeaderText :
        NonLiteral(d) =>
            /\ enum_map # Nil => d.name \notin DOMAIN enum_map
            /\ \A j \in DOMAIN hash_entries : hash_entries[j].name # d.name
            /\ Requested(d.name) =>
                  /\ stdout = Nil
                  /\ entries = <<>>
                  /\ (pc = "exit" /\ ~ConfigErr /\ ~CountErr /\ ~args.list_types) =>
                        Reported({"unknown_type"})


\* the prints of the diagnostics (the statistics line) in the run so far
StatsWrites == {k \in DOMAIN writes : writes[k].kind = "stats"}
SourceWrites == {k \in DOMAIN writes : writes[k].kind = "source"}

\* C19: diagnostics. The statistics (entry count, capacity, load factor, max
\* probe depth) are printed to stderr only and the generated source to stdout
\* only; nothing printed to stdout is a diagnostic or an error message; and the
\* statistics are printed after the whole generated source has been printed.
C19_Diagnostics ==
    /\ \A k \in StatsWrites :
          /\ writes[k].stream = "stderr"
          /\ writes[k].text = [kind |-> "stats", n_entries |-> Len(args.types),
                               table_size |-> args.table_size,
                               load_factor |-> <<Len(args.types) * 100, args.table_size>>,
                               max_probes |-> fr[1].ret[2]]
          /\ \E j \in SourceWrites : j < k /\ writes[j].text = stdout /\ stdout # Nil
    /\ \A k \in SourceWrites : writes[k].stream = "stdout" /\ writes[k].text = stdout
    /\ \A k \in DOMAIN writes :
          /\ writes[k].stream = "stdout" => writes[k].kind \in {"source", "types"}
          /\ writes[k].kind = "error" => writes[k].stream = "stderr"
    /\ Cardinality(SourceWrites) <= 1 /\ Cardinality(StatsWrites) <= 1
    /\ (pc = "exit" /\ stdout # Nil) => SourceWrites # {} /\ StatsWrites # {}

\* a run that printed the source and then the statistics of a table with a
\* displaced entry
C19_Witness ==
    /\ pc = "exit"
    /\ Len(writes) = 2
    /\ writes[1].kind = "source" /\ writes[1].stream = "stdout"
    /\ writes[2].kind = "stats" /\ writes[2].stream = "stderr"
    /\ writes[2].text.max_probes > 0


\* the part of an emitted source that does not depend on how things are named
Unnamed(code) ==
    [hash_size |-> code.hash_size, handler_count |-> code.handler_count,
     handlers |-> code.handlers, table_init |-> code.table_init, table |-> CTable(code)]

\* C20: naming has no effect on behaviour. Two runs that differ only in the
\* naming options (table name, handler array name, entry and handler type
\* names, prefix) end with the same status and messages and produce the same
\* slot assignment, the same handler_idx in every slot, the same capacity and,
\* for every key, the same result of the lookup.
C20_NamingNoEffect ==
    prev # Nil =>
        /\ args.naming # prev.args.naming
        /\ [args EXCEPT !.naming = prev.args.naming] = prev.args
        /\ pc = "exit" =>
              /\ exit_code = prev.exit_code
              /\ stderr = prev.stderr
              /\ (stdout = Nil) <=> (prev.stdout = Nil)
              /\ stdout # Nil => Unnamed(stdout) = Unnamed(prev.stdout)
        /\ (lk.pc = "done" /\ prev.lk.pc = "done" /\ lk.type = prev.lk.type) =>
              /\ lk.ret = prev.lk.ret
              /\ lk.visited = prev.lk.visited

\* both runs emitted a table of two colliding entries under different names,
\* and the lookup of the displaced key found it in both
C20_Witness ==
    /\ prev # Nil
    /\ pc = "exit"
    /\ stdout # Nil /\ prev.stdout # Nil
    /\ stdout.table_name # prev.stdout.table_name
    /\ stdout.size_macro # prev.stdout.size_macro
    /\ stdout.lookup_fn # prev.stdout.lookup_fn
    /\ max_probes = 1
    /\ lk.pc = "done" /\ prev.lk.pc = "done"
    /\ lk.type = prev.lk.type
    /\ lk.ret = 1
    /\ Len(lk.visited) = 2


\* ---- a build run alone: the steps of compute_hash_table one after the other
\* the first free slot from h on, with the probes it takes to reach it; slot -1
\* when the probes reach the size of the table first
RECURSIVE FreeFrom(_, _, _, _)
FreeFrom(table, size, h, probes) ==
    IF table[h] = None THEN [slot |-> h, probes |-> probes]
    ELSE IF Overflowed(probes + 1, size) THEN [slot |-> -1, probes |-> probes + 1]
    ELSE FreeFrom(table, size, NextSlot(h, size), probes + 1)

\* the run from the i-th entry on, st being the table, the results and the
\* largest probe count so far
RECURSIVE AloneFrom(_, _, _, _)
AloneFrom(ents, size, i, st) ==
    IF st.raised \/ i > Len(ents) THEN st
    ELSE LET e == ents[i]
             home == HomeSlot(e.ptype, size)
             at == FreeFrom(st.table, size, home, 0)
         IN IF at.slot = -1
            THEN [st EXCEPT !.raised = TRUE]
            ELSE AloneFrom(ents, size, i + 1,
                    [table |-> [st.table EXCEPT ![at.slot] = e],
                     results |-> Append(st.results,
                                    [slot |-> at.slot, name |-> e.name,
                                     handler_idx |-> e.handler_idx,
                                     comment |-> Comment(e.ptype, home, at.probes, at.slot)]),
                     probe_rec |-> Append(st.probe_rec, at.probes),
                     max_probes |-> Max(st.max_probes, at.probes),
                     raised |-> FALSE])
Alone(ents, size) ==
    AloneFrom(ents, size, 1,
              [table |-> [s \in 0..(size - 1) |-> None], results |-> <<>>,
               probe_rec |-> <<>>, max_probes |-> 0, raised |-> FALSE])

\* a call that has ended ended as its build run alone ends
C21_AsAlone ==
    \A c \in Calls :
        Finished(c) =>
            LET a == Alone(fr[c].entries, fr[c].table_size)
            IN /\ (fr[c].pc = "raised") <=> a.raised
               /\ fr[c].pc = "returned" =>
                     /\ fr[c].table = a.table
                     /\ fr[c].results = a.results
                     /\ fr[c].probe_rec = a.probe_rec
                     /\ fr[c].ret = <<SortBySlot(a.results), a.max_probes>>

\* a step changes the frame of one call only
C21_OneFrame ==
    \A c \in Calls : fr'[c] # fr[c] => \A d \in Calls \ {c} : fr'[d] = fr[d]

\* C21: isolation of runs. Two builds for different targets that run in
\* parallel, interleaved step by step (one probe, one insertion at a time),
\* each end with the table the build has when it is run alone; no step of one
\* changes the table, the probe counters or the results of the other.
C21_Isolation == []C21_AsAlone /\ [][C21_OneFrame]_vars

\* the two builds, of different entries, are both in their second insertion
C21_Witness ==
    /\ fr[1].pc = "while" /\ fr[2].pc = "while"
    /\ fr[1].entries # fr[2].entries
    /\ Len(fr[1].results) = 1 /\ Len(fr[2].results) = 1
    /\ fr[1].probes = 1 /\ fr[2].table[fr[2].h] # None


\* the entries a call has placed so far: the j-th result is that of the j-th entry
Placed(c) == DOMAIN fr[c].results
KeyOfPlaced(c, j) == fr[c].entries[j].ptype
HomeOfPlaced(c, j) == KeyOfPlaced(c, j) % fr[c].table_size

\* C22: slot formula. After every insertion of a build, every placed entry is
\* in slot (key mod capacity + probe_count) mod capacity, with
\* 0 <= probe_count < capacity, also when the probing wrapped past the last slot.
C22_SlotFormula ==
    \A c \in Calls :
        /\ Len(fr[c].probe_rec) = Len(fr[c].results)
        /\ \A j \in Placed(c) :
              /\ fr[c].results[j].name = fr[c].entries[j].name
              /\ fr[c].probe_rec[j] \in 0..(fr[c].table_size - 1)
              /\ fr[c].results[j].slot =
                    (HomeOfPlaced(c, j) + fr[c].probe_rec[j]) % fr[c].table_size
              /\ fr[c].table[fr[c].results[j].slot] = fr[c].entries[j]

\* an entry displaced past the last slot: it lies before its home slot
C22_Witness ==
    \E j \in Placed(1) :
        /\ fr[1].results[j].slot < HomeOfPlaced(1, j)
        /\ fr[1].probe_rec[j] = 2
        /\ fr[1].table_size = 3
        /\ pc = "exit"


\* the pairs of placed entries of one home slot, the first before the second
SameHomePairs(c) ==
    {p \in Placed(c) \X Placed(c) :
        p[1] < p[2] /\ HomeOfPlaced(c, p[1]) = HomeOfPlaced(c, p[2])}

\* C23 as stated: of two entries that share a home slot the first of the input
\* order occupies the home slot and the later one is displaced.
C23_FirstTakesHome ==
    \A c \in Calls : \A p \in SameHomePairs(c) :
        /\ fr[c].results[p[1]].slot = HomeOfPlaced(c, p[1])
        /\ fr[c].results[p[2]].slot # HomeOfPlaced(c, p[2])

\* C23: tie-break. Of two entries that share a home slot the first of the
\* input order is the nearer to the home along the probe sequence: its probe
\* count is smaller, and the later one is displaced, to slot
\* (home + probe_count) mod capacity. The earlier one occupies the home slot
\* itself when no entry placed before it took that slot.
C23_TieBreak ==
    \A c \in Calls : \A p \in SameHomePairs(c) :
        LET home == HomeOfPlaced(c, p[1])
        IN /\ fr[c].probe_rec[p[1]] < fr[c].probe_rec[p[2]]
           /\ fr[c].results[p[2]].slot # home
           /\ fr[c].results[p[2]].slot = (home + fr[c].probe_rec[p[2]]) % fr[c].table_size
           /\ (\A k \in 1..(p[1] - 1) : fr[c].results[k].slot # home) =>
                 fr[c].results[p[1]].slot = home

\* keys 0, 12, 1, 9 in a table of 4: the home slot of 1 and 9 is held by 12
C23_Witness ==
    /\ pc = "exit"
    /\ fr[1].table_size = 4
    /\ KeySeq(fr[1].entries) = <<0, 12, 1, 9>>
    /\ fr[1].pc = "returned"
    /\ <<3, 4>> \in SameHomePairs(1)
    /\ fr[1].results[3].slot = 2
    /\ fr[1].results[4].slot = 3


Occupied(c) == {s \in DOMAIN fr[c].table : fr[c].table[s] # None}
Running(c) == fr[c].pc \in {"for", "while", "returned", "raised"}

\* C24: slot exclusivity. In every state of a build no two entries have one
\* slot, the occupied slots are as many as the entries inserted so far, every
\* assigned slot is in 0..capacity-1, and the returned list has one element
\* for each entry, in strictly increasing order of slot; a build of more
\* entries than slots fails and returns no table.
C24_Exclusive ==
    \A c \in Calls :
        Running(c) =>
            /\ DOMAIN fr[c].table = 0..(fr[c].table_size - 1)
            /\ \A j, k \in Placed(c) :
                  j # k => fr[c].results[j].slot # fr[c].results[k].slot
            /\ Occupied(c) = {fr[c].results[j].slot : j \in Placed(c)}
            /\ Cardinality(Occupied(c)) = Len(fr[c].results)
            /\ Len(fr[c].results) = IF fr[c].pc = "for" THEN fr[c].i ELSE
                                    IF fr[c].pc = "returned" THEN Len(fr[c].entries)
                                    ELSE fr[c].i - 1
            /\ \A j \in Placed(c) : fr[c].results[j].slot \in 0..(fr[c].table_size - 1)
            /\ fr[c].pc = "returned" =>
                  /\ Len(fr[c].ret[1]) = Len(fr[c].entries)
                  /\ \A j \in Placed(c) : \E k \in DOMAIN fr[c].ret[1] :
                        fr[c].ret[1][k] = fr[c].results[j]
                  /\ \A k \in 1..(Len(fr[c].ret[1]) - 1) :
                        fr[c].ret[1][k].slot < fr[c].ret[1][k + 1].slot
            /\ (Len(fr[c].entries) > fr[c].table_size /\ Finished(c)) =>
                  fr[c].pc = "raised" /\ fr[c].ret = Nil

\* a full table of three entries returned in an order that is not the order of
\* their insertion
C24_Witness ==
    /\ fr[1].pc = "returned"
    /\ Len(fr[1].entries) = 3
    /\ fr[1].table_size = 3
    /\ fr[1].ret[1] # fr[1].results
    /\ Cardinality(Occupied(1)) = 3


\* a step that changes the table of a running call fills one Empty slot and
\* leaves the others, and it adds one result after those there are
C25_InsertFrame ==
    \A c \in Calls :
        (Running(c) /\ fr'[c].table # fr[c].table) =>
            /\ fr[c].pc = "while"
            /\ DOMAIN fr'[c].table = DOMAIN fr[c].table
            /\ \E s \in DOMAIN fr[c].table :
                  /\ fr[c].table[s] = None
                  /\ fr'[c].table[s] = fr[c].cur
                  /\ \A t \in DOMAIN fr[c].table \ {s} : fr'[c].table[t] = fr[c].table[t]
            /\ Len(fr'[c].results) = Len(fr[c].results) + 1
            /\ SubSeq(fr'[c].results, 1, Len(fr[c].results)) = fr[c].results

\* what is placed stays where it is, and what is returned stays as it is
C25_NeverMoved ==
    \A c \in Calls :
        /\ Running(c) =>
              /\ \A s \in DOMAIN fr[c].table :
                    fr[c].table[s] # None => fr'[c].table[s] = fr[c].table[s]
              /\ \A j \in Placed(c) : fr'[c].results[j] = fr[c].results[j]
        /\ Finished(c) => fr'[c] = fr[c]
        /\ pc \in {"emit", "stats", "exit"} => UNCHANGED <<hash_entries, entries, max_probes>>
        /\ pc = "emit" => stdout'.table_init = hash_entries /\ hash_entries = fr[1].ret[1]

\* C25: frame of an insertion. Placing an entry changes one slot from Empty to
\* Occupied and leaves every other slot as it was; an entry that has a slot is
\* never moved or overwritten by a later insertion; the table is not modified
\* after the build has returned: the emission only reads it.
C25_Frame == [][C25_InsertFrame /\ C25_NeverMoved]_vars

\* the source of a full table of three entries was emitted and the table and
\* the list of the build are what they were when the build returned
C25_Witness ==
    /\ pc = "exit"
    /\ stdout # Nil
    /\ Cardinality(Occupied(1)) = 3
    /\ fr[1].table_size = 3
    /\ hash_entries = fr[1].ret[1]
    /\ stdout.table_init = hash_entries


\* C26: handler_idx without loss. For every entry the handler_idx stored in the
\* record of the emitted table, and returned by the emitted lookup of the
\* entry's key, is the entry's handler_idx, for every value of the u32 range,
\* 256 and more included.
C26_IdxWithoutLoss ==
    stdout # Nil =>
        \A j \in DOMAIN stdout.table_init :
            LET r == stdout.table_init[j]
            IN /\ CTable(stdout)[r.slot].handler_idx = r.handler_idx
               /\ (lk.pc = "done" /\ lk.type = CValue(r.name)) => lk.ret = r.handler_idx


\* the largest probe count of the entries placed, 0 when there is none
DeepestProbe(c) ==
    IF fr[c].probe_rec = <<>> THEN 0
    ELSE CHOOSE m \in {fr[c].probe_rec[j] : j \in DOMAIN fr[c].probe_rec} :
            \A j \in DOMAIN fr[c].probe_rec : fr[c].probe_rec[j] <= m
\* the statistics line of the run
StatsLine == stderr[Len(stderr)]

\* C27: the reported max probe depth is the largest probe_count of the entries
\* of the build (0 without a collision), and the reported entry count and
\* capacity are len(entries) and the table_size the build used.
C27_Report ==
    /\ \A c \in Calls :
          /\ Running(c) => fr[c].max_probes = DeepestProbe(c)
          /\ fr[c].pc = "returned" => fr[c].ret[2] = DeepestProbe(c)
    /\ pc \in {"emit", "stats", "exit"} /\ fr[1].pc = "returned" =>
          max_probes = DeepestProbe(1)
    /\ (pc = "exit" /\ exit_code = 0 /\ stdout # Nil) =>
          /\ StatsLine.kind = "stats"
          /\ StatsLine.max_probes = DeepestProbe(1)
          /\ StatsLine.n_entries = Len(fr[1].entries)
          /\ StatsLine.n_entries = Len(args.types)
          /\ StatsLine.table_size = fr[1].table_size
          /\ StatsLine.load_factor = <<Len(fr[1].entries) * 100, fr[1].table_size>>

\* three entries placed after 0, 1 and 0 probes: the report says 1
C27_Witness ==
    /\ pc = "exit"
    /\ exit_code = 0
    /\ fr[1].probe_rec = <<0, 1, 0>>
    /\ StatsLine.max_probes = 1
    /\ StatsLine.n_entries = 3
    /\ StatsLine.table_size = 3


\* the slots from the home slot of a placed entry up to the slot before its own,
\* going round the table
PathOfPlaced(c, j) ==
    LET size == fr[c].table_size
        dist == (fr[c].results[j].slot + size - HomeOfPlaced(c, j)) % size
    IN {(HomeOfPlaced(c, j) + d) % size : d \in 0..(dist - 1)}

\* C28: probe-run contiguity. After every insertion of a build, for every
\* placed entry every slot on the circular path from its home slot up to, and
\* not including, its own slot is Occupied: no Empty slot lies between the home
\* slot of an entry and the slot it occupies.
C28_Contiguity ==
    \A c \in Calls :
        Running(c) =>
            \A j \in Placed(c) :
                /\ Cardinality(PathOfPlaced(c, j)) = fr[c].probe_rec[j]
                /\ \A s \in PathOfPlaced(c, j) : fr[c].table[s] # None

\* an entry two slots after its home, the path going round the end of the table
C28_Witness ==
    \E j \in Placed(1) :
        /\ fr[1].pc = "returned"
        /\ Cardinality(PathOfPlaced(1, j)) = 2
        /\ 0 \in PathOfPlaced(1, j)
        /\ fr[1].table_size - 1 \in PathOfPlaced(1, j)


\* C29: probe depth bound. The entry inserted k-th, counting from 0, is placed
\* with probe_count <= k (and is never probed further than k while it is being
\* inserted); a successful build of N >= 1 entries has a max probe depth of at
\* most N - 1, which is strictly less than the capacity.
C29_DepthBound ==
    \A c \in Calls :
        Running(c) =>
            /\ \A j \in Placed(c) : fr[c].probe_rec[j] <= j - 1
            /\ fr[c].pc \in {"while", "raised"} => fr[c].probes <= fr[c].i - 1
            /\ (fr[c].pc = "returned" /\ Len(fr[c].entries) >= 1) =>
                   /\ fr[c].ret[2] <= Len(fr[c].entries) - 1
                   /\ Len(fr[c].entries) - 1 < fr[c].table_size
                   /\ fr[c].ret[2] < fr[c].table_size

\* a successful build whose last entry needed as many probes as there were
\* entries before it
C29_Witness ==
    /\ fr[1].pc = "returned"
    /\ Len(fr[1].entries) = 3
    /\ fr[1].probe_rec[3] = 2
    /\ fr[1].ret[2] = 2


\* the error conditions that hold in a run, by the check that tests them
ErrorsHeld ==
    {k \in {"header", "lists", "count", "unresolved", "overflow"} :
        \/ k = "header" /\ HeaderAbsent
        \/ k = "lists" /\ ListsAbsent
        \/ k = "count" /\ CountErr
        \/ k = "unresolved" /\ UnresolvedErr
        \/ k = "overflow" /\ OverflowErr}
\* the message of the first check, in the fixed order, whose condition holds
FirstError ==
    IF args.header = "none" THEN "usage_header"
    ELSE IF args.header = "missing" THEN "header_not_found"
    ELSE IF ListsAbsent THEN "usage_lists"
    ELSE IF CountErr THEN "count_mismatch"
    ELSE IF UnresolvedErr THEN "unknown_type"
    ELSE "overflow"
\* the run ended on the first error alone, and no later check or stage has run
FirstErrorOnly ==
    /\ Len(stderr) = 1
    /\ stderr[1].kind = FirstError
    /\ exit_code # 0
    /\ NoOutput
    /\ stderr[1].kind = "unknown_type" =>
           \E j \in Unresolved(enum_values) :
               /\ \A i \in Unresolved(enum_values) : j <= i
               /\ stderr[1].name = args.types[j]
    /\ stderr[1].kind \in {"usage_header", "header_not_found"} => NothingProcessed
    /\ stderr[1].kind \in {"usage_lists", "count_mismatch", "unknown_type"} => NotBuilt
\* the run lists the symbols of a declaration source that is present
ListingRun == args.list_types /\ ~HeaderAbsent

\* C30 as stated: when several error conditions hold in one run, exactly one
\* error is reported and it is the first in the fixed check order.
C30_FirstOfSeveral ==
    (pc = "exit" /\ Cardinality(ErrorsHeld) >= 2) => FirstErrorOnly

\* an error message ends the run, and nothing of the run changes after its end
C30_StopStep ==
    /\ (stderr' # stderr /\ stderr'[Len(stderr')].kind # "stats") =>
           /\ pc' = "exit"
           /\ Len(stderr') = 1
           /\ UNCHANGED <<entries, hash_entries, stdout, fr, enum_map>>
    /\ pc = "exit" => UNCHANGED mainVars

\* C30: error precedence. In a run that does not list the symbols, when one or
\* several error conditions hold exactly one error is reported and it is the
\* first in the fixed check order: missing declaration source, then missing
\* type/handler list, then count mismatch, then the first unresolved type name
\* in input order, then overflow; no later check runs after an earlier one
\* fails. A run that lists the symbols of a present declaration source reports
\* no error at all.
C30_FirstReported ==
    pc = "exit" =>
        /\ (~ListingRun /\ ErrorsHeld # {}) => FirstErrorOnly
        /\ ListingRun => stderr = <<>> /\ exit_code = 0
C30_Precedence == []C30_FirstReported /\ [][C30_StopStep]_vars

\* two names that do not resolve in a table too small for them: the first one
\* in input order is reported, the second and the overflow are not
C30_Witness ==
    /\ pc = "exit"
    /\ ~ListingRun
    /\ Cardinality(Unresolved(enum_values)) = 2
    /\ OverflowErr
    /\ Len(stderr) = 1
    /\ stderr[1].kind = "unknown_type"
    /\ stderr[1].name = args.types[1]
    /\ args.types[1] = UnknownName

====
